---- MODULE Spec2Model ----
(***************************************************************************)
(* A model of skills/hive-expert/scripts/hive_api_map.py: the heuristic    *)
(* public-API mapper.  Text is modelled character by character (a string   *)
(* is a sequence of one-character strings), so that the regular            *)
(* expression, the string ordering used by the sorts, the lower-casing of  *)
(* path segments and the decoding of file bytes are all computed, not      *)
(* assumed.                                                                *)
(***************************************************************************)
EXTENDS Integers, Sequences, FiniteSets, TLC

(***************************************************************************)
(* Characters and ordinary (code point) string ordering.                   *)
(***************************************************************************)
Lowercase == <<"a","b","c","d","e","f","g","h","i","j","k","l","m",
               "n","o","p","q","r","s","t","u","v","w","x","y","z">>
Uppercase == <<"A","B","C","D","E","F","G","H","I","J","K","L","M",
               "N","O","P","Q","R","S","T","U","V","W","X","Y","Z">>
Digits == <<"0","1","2","3","4","5","6","7","8","9">>

\* A byte that is not valid UTF-8, and the character U+FFFD that
\* errors="replace" puts in its place.
BadByte == "0xFF"
ReplChar == "U+FFFD"

InSeq(s, c) == \E i \in 1..Len(s) : s[i] = c
IndexOf(s, c) == CHOOSE i \in 1..Len(s) : s[i] = c

\* The code point of a character: what Python compares strings by.
Ord(c) ==
  IF InSeq(Lowercase, c) THEN 96 + IndexOf(Lowercase, c)
  ELSE IF InSeq(Uppercase, c) THEN 64 + IndexOf(Uppercase, c)
  ELSE IF InSeq(Digits, c) THEN 47 + IndexOf(Digits, c)
  ELSE CASE c = "\t" -> 9
         [] c = "\n" -> 10
         [] c = " " -> 32
         [] c = "(" -> 40
         [] c = ")" -> 41
         [] c = "." -> 46
         [] c = "/" -> 47
         [] c = "_" -> 95
         [] c = "{" -> 123
         [] c = ReplChar -> 65533

\* str.lower() on one character.
LowerChar(c) == IF InSeq(Uppercase, c) THEN Lowercase[IndexOf(Uppercase, c)] ELSE c

\* str.lower()
LowerStr(s) == [i \in 1..Len(s) |-> LowerChar(s[i])]

\* Python's str < str: the first differing character decides, a proper
\* prefix is smaller.
RECURSIVE StrLessFrom(_, _, _)
StrLessFrom(a, b, i) ==
  IF i > Len(a) THEN i <= Len(b)
  ELSE IF i > Len(b) THEN FALSE
  ELSE IF a[i] = b[i] THEN StrLessFrom(a, b, i + 1)
  ELSE Ord(a[i]) < Ord(b[i])

StrLess(a, b) == StrLessFrom(a, b, 1)

\* A comparison of the names alone.
KeyLessByName(d, e) == StrLess(d.name, e.name)

\* Python's tuple comparison of the sort key (d.kind, d.name).
KeyLess(d, e) ==
  \/ StrLess(d.kind, e.kind)
  \/ d.kind = e.kind /\ StrLess(d.name, e.name)

(***************************************************************************)
(* PUBLIC_DECL_RE and re.match.                                            *)
(***************************************************************************)
KwPublic == <<"p","u","b","l","i","c">>
KwFinal == <<"f","i","n","a","l">>
KwStruct == <<"s","t","r","u","c","t">>
KwEnum == <<"e","n","u","m">>
KwProtocol == <<"p","r","o","t","o","c","o","l">>
KwClass == <<"c","l","a","s","s">>
KwActor == <<"a","c","t","o","r">>
KwTypealias == <<"t","y","p","e","a","l","i","a","s">>
KwFunc == <<"f","u","n","c">>
KwVar == <<"v","a","r">>
KwLet == <<"l","e","t">>

\* The alternation of the pattern, in its order.
KINDS == <<KwStruct, KwEnum, KwProtocol, KwClass, KwActor, KwTypealias,
           KwFunc, KwVar, KwLet>>

\* \s
IsSpace(c) == c \in {" ", "\t", "\n", "\r", "\f"}
\* \w
IsWord(c) == InSeq(Lowercase, c) \/ InSeq(Uppercase, c) \/ InSeq(Digits, c) \/ c = "_"
\* [A-Za-z_]
IsIdentStart(c) == InSeq(Lowercase, c) \/ InSeq(Uppercase, c) \/ c = "_"

\* The literal lit occurs in line at position pos.
MatchLiteral(line, pos, lit) ==
  /\ pos + Len(lit) - 1 <= Len(line)
  /\ \A i \in 1..Len(lit) : line[pos + i - 1] = lit[i]

\* The position after the longest run of \s starting at pos (\s+ and \s*
\* are greedy; what follows them in the pattern never starts with \s, so a
\* shorter run cannot match either).
RECURSIVE SkipSpaces(_, _)
SkipSpaces(line, pos) ==
  IF pos <= Len(line) /\ IsSpace(line[pos]) THEN SkipSpaces(line, pos + 1) ELSE pos

\* The position after the longest run of \w starting at pos.
RECURSIVE SkipWord(_, _)
SkipWord(line, pos) ==
  IF pos <= Len(line) /\ IsWord(line[pos]) THEN SkipWord(line, pos + 1) ELSE pos

NoMatch == [matched |-> FALSE]

\* (struct|...|let)\s+([A-Za-z_]\w*) tried at position pos with the k-th
\* alternative.
KindAt(line, pos, k) ==
  LET kw == KINDS[k]
      afterKw == pos + Len(kw)
      nameAt == SkipSpaces(line, afterKw)
  IN  IF /\ MatchLiteral(line, pos, kw)
         /\ nameAt > afterKw
         /\ nameAt <= Len(line)
         /\ IsIdentStart(line[nameAt])
      THEN [matched |-> TRUE, kind |-> kw,
            name |-> SubSeq(line, nameAt, SkipWord(line, nameAt) - 1)]
      ELSE NoMatch

\* The alternatives in order: the first that leads to a match wins.
RECURSIVE KindFrom(_, _, _)
KindFrom(line, pos, k) ==
  IF k > Len(KINDS) THEN NoMatch
  ELSE IF KindAt(line, pos, k).matched THEN KindAt(line, pos, k)
  ELSE KindFrom(line, pos, k + 1)

\* The pattern with \s* put before "public".
PublicDeclSearch(line) ==
  LET p0 == SkipSpaces(line, 1)
      afterPublic == p0 + Len(KwPublic)
      s1 == SkipSpaces(line, afterPublic)
      afterFinal == s1 + Len(KwFinal)
      s2 == SkipSpaces(line, afterFinal)
      withFinal == IF MatchLiteral(line, s1, KwFinal) /\ s2 > afterFinal
                   THEN KindFrom(line, s2, 1) ELSE NoMatch
  IN  IF ~(MatchLiteral(line, p0, KwPublic) /\ s1 > afterPublic) THEN NoMatch
      ELSE IF withFinal.matched THEN withFinal
      ELSE KindFrom(line, s1, 1)

\* PUBLIC_DECL_RE.match(line): anchored at the first character of line.
PublicDeclMatch(line) ==
  LET afterPublic == 1 + Len(KwPublic)
      s1 == SkipSpaces(line, afterPublic)
      afterFinal == s1 + Len(KwFinal)
      s2 == SkipSpaces(line, afterFinal)
      withFinal == IF MatchLiteral(line, s1, KwFinal) /\ s2 > afterFinal
                   THEN KindFrom(line, s2, 1) ELSE NoMatch
  IN  IF ~(MatchLiteral(line, 1, KwPublic) /\ s1 > afterPublic) THEN NoMatch
      ELSE IF withFinal.matched THEN withFinal
      ELSE KindFrom(line, s1, 1)

(***************************************************************************)
(* Reading a file: decoding and str.splitlines.                            *)
(***************************************************************************)
\* path.read_text(encoding="utf-8") raises UnicodeDecodeError on these bytes.
HasBadByte(bytes) == \E i \in 1..Len(bytes) : bytes[i] = BadByte

\* path.read_text(encoding="utf-8", errors="replace")
DecodeReplace(bytes) ==
  [i \in 1..Len(bytes) |-> IF bytes[i] = BadByte THEN ReplChar ELSE bytes[i]]

\* The try/except of scan_file: the strict decoding, and on a decoding
\* error the replacing one.
ReadText(bytes) == IF HasBadByte(bytes) THEN DecodeReplace(bytes) ELSE bytes

\* The line boundaries of str.splitlines that occur in the model's alphabet.
IsLineBreak(c) == c \in {"\n", "\r", "\f"}

\* text.splitlines(): the text is cut at its boundaries, which are dropped,
\* and a text that ends with a boundary has no empty last line.
SplitLines(text) ==
  LET breaks == {i \in 1..Len(text) : IsLineBreak(text[i])}
      \* the boundaries and, for a last line without one, the end of the text
      ends == breaks \cup (IF Len(text) > 0 /\ ~IsLineBreak(text[Len(text)])
                           THEN {Len(text) + 1} ELSE {})
      EndOf(k) == CHOOSE e \in ends : Cardinality({x \in ends : x < e}) = k - 1
      StartOf(k) == IF k = 1 THEN 1 ELSE EndOf(k - 1) + 1
  IN  [k \in 1..Cardinality(ends) |-> SubSeq(text, StartOf(k), EndOf(k) - 1)]

\* The Decl dataclass.
Decl(kind, name, file, line) ==
  [kind |-> kind, name |-> name, file |-> file, line |-> line]

\* The loop of scan_file over enumerate(lines, start=1).
RECURSIVE ScanLines(_, _, _, _)
ScanLines(path, lines, idx, acc) ==
  IF idx > Len(lines) THEN acc
  ELSE LET m == PublicDeclMatch(lines[idx])
       IN  IF ~m.matched THEN ScanLines(path, lines, idx + 1, acc)
           ELSE ScanLines(path, lines, idx + 1,
                          Append(acc, Decl(m.kind, m.name, path, idx)))

\* scan_file(path), for a file that can be read, whose bytes are given.
scan_file(path, bytes) == ScanLines(path, SplitLines(ReadText(bytes)), 1, <<>>)

(***************************************************************************)
(* Paths: a path is the sequence of its parts, an absolute one starting    *)
(* with the part "/".                                                      *)
(***************************************************************************)
SegSlash == <<"/">>
SegRepo == <<"r","e","p","o">>
SegLibs == <<"l","i","b","s">>
SegHive == <<"h","i","v","e">>
SegSources == <<"S","o","u","r","c","e","s">>
SegDotBuild == <<".","b","u","i","l","d">>
SegDotSwiftpm == <<".","s","w","i","f","t","p","m">>
SuffixSwift == <<".","s","w","i","f","t">>

IsPrefix(p, q) == Len(p) <= Len(q) /\ SubSeq(q, 1, Len(p)) = p
IsProperPrefix(p, q) == Len(p) < Len(q) /\ SubSeq(q, 1, Len(p)) = p
BaseName(p) == p[Len(p)]
EndsWith(s, suffix) ==
  Len(suffix) <= Len(s) /\ SubSeq(s, Len(s) - Len(suffix) + 1, Len(s)) = suffix

\* path.relative_to(base), for a path under base.
RelativeTo(p, base) == SubSeq(p, Len(base) + 1, Len(p))

\* root / "libs" / "hive" / "Sources"
SourcesRoot(r) == r \o <<SegLibs, SegHive, SegSources>>

(***************************************************************************)
(* The state: the file system the run reads, and the run itself.           *)
(***************************************************************************)
VARIABLES
  root,      \* args.root.resolve()
  dirs,      \* the directories that exist besides the ancestors of files
  fs,        \* the files: records [path, bytes, readable]
  pc,        \* "start", "loop", "scan", "done", "exit" or "crash"
  modules,   \* the sorted list of module directories
  mi,        \* the index in modules of the module of the current iteration
  yielded,   \* the files iter_swift_files has yielded in this iteration
  decls,     \* the local decls of main
  unique,    \* the local unique of main
  out,       \* the lines printed on standard output
  errs,      \* what went to standard error
  exitCode   \* the exit status, -1 while the run has not ended

vars == <<root, dirs, fs, pc, modules, mi, yielded, decls, unique, out, errs, exitCode>>

\* Path.exists and Path.is_dir on the modelled file system.
Exists(p) == p \in dirs \/ \E f \in fs : IsPrefix(p, f.path)
IsDir(p) == p \in dirs \/ \E f \in fs : IsProperPrefix(p, f.path)

\* d.iterdir(): the entries directly in the directory d.
IterDir(d) ==
  {SubSeq(q, 1, Len(d) + 1) :
     q \in {x \in dirs \cup {f.path : f \in fs} : IsProperPrefix(d, x)}}

\* sorted(ps, key=lambda p: p.name), for entries of one directory (whose
\* names differ).
RECURSIVE SortedByName(_)
SortedByName(ps) ==
  IF ps = {} THEN <<>>
  ELSE LET least == CHOOSE p \in ps :
                      \A q \in ps \ {p} : StrLess(BaseName(p), BaseName(q))
       IN  <<least>> \o SortedByName(ps \ {least})

\* The skip condition without the lower-casing.
IsSkippedCaseSensitive(path) ==
  LET parts == {path[i] : i \in 1..Len(path)}
  IN  SegDotBuild \in parts \/ SegDotSwiftpm \in parts

\* The skip condition of iter_swift_files: the lower-cased parts of the
\* whole path, from "/" down to the file name.
IsSkipped(path) ==
  LET parts == {LowerStr(path[i]) : i \in 1..Len(path)}
  IN  SegDotBuild \in parts \/ SegDotSwiftpm \in parts

\* The files module_dir.rglob("*.swift") finds.
RGlobSwift(module_dir) ==
  {f \in fs : IsProperPrefix(module_dir, f.path) /\ EndsWith(BaseName(f.path), SuffixSwift)}

\* The files iter_swift_files(module_dir) yields (in an order the file
\* system decides).
iter_swift_files(module_dir) == {f \in RGlobSwift(module_dir) : ~IsSkipped(f.path)}

(***************************************************************************)
(* De-duplication, sort and rendering (main, lines 87-114).                *)
(***************************************************************************)
Key(d) == <<d.kind, d.name>>

\* The loop over decls with the set seen.
RECURSIVE DedupeFrom(_, _, _, _)
DedupeFrom(ds, i, seen, acc) ==
  IF i > Len(ds) THEN acc
  ELSE IF Key(ds[i]) \in seen THEN DedupeFrom(ds, i + 1, seen, acc)
  ELSE DedupeFrom(ds, i + 1, seen \cup {Key(ds[i])}, Append(acc, ds[i]))

\* A de-duplication that keeps the last occurrence of a key.
RECURSIVE DedupeKeepLastFrom(_, _)
DedupeKeepLastFrom(ds, i) ==
  IF i > Len(ds) THEN <<>>
  ELSE (IF \E j \in (i + 1)..Len(ds) : Key(ds[j]) = Key(ds[i]) THEN <<>> ELSE <<ds[i]>>)
       \o DedupeKeepLastFrom(ds, i + 1)

DedupeKeepLast(ds) == DedupeKeepLastFrom(ds, 1)

Dedupe(ds) == DedupeFrom(ds, 1, {}, <<>>)

\* list.sort(key=...) is stable: an element goes after those whose key is
\* not greater than its own.
RECURSIVE InsertSorted(_, _, _)
InsertSorted(sorted, d, i) ==
  IF i > Len(sorted) THEN Append(sorted, d)
  ELSE IF KeyLess(d, sorted[i])
       THEN SubSeq(sorted, 1, i - 1) \o <<d>> \o SubSeq(sorted, i, Len(sorted))
       ELSE InsertSorted(sorted, d, i + 1)

RECURSIVE SortFrom(_, _, _)
SortFrom(ds, i, acc) ==
  IF i > Len(ds) THEN acc ELSE SortFrom(ds, i + 1, InsertSorted(acc, ds[i], 1))

\* No sort at all.
SortDeclsNone(ds) == ds

SortDecls(ds) == SortFrom(ds, 1, <<>>)

\* The lines printed before the loop over the modules.
HeaderLines ==
  << <<"title">>, <<"blank">>, <<"root", root>>, <<"sources", SourcesRoot(root)>>,
     <<"note">>, <<"blank">> >>

\* The number of entries listed for a module.
MaxListed == 60

Min(a, b) == IF a <= b THEN a ELSE b

\* The entry with the path taken relative to the sources root.
EntryLineFromSources(d) ==
  <<"entry", d.kind, d.name, RelativeTo(d.file, SourcesRoot(root)), d.line>>

\* print(f"- `{d.kind} {d.name}` ({rel}:{d.line})")
EntryLine(d) == <<"entry", d.kind, d.name, RelativeTo(d.file, root), d.line>>

\* The section with the summary line printed from 60 declarations on.
ModuleLinesOffByOne(module_dir, uniq, nfiles) ==
  << <<"heading", BaseName(module_dir)>>, <<"blank">>, <<"files", nfiles>>,
     <<"decls", Len(uniq)>>, <<"blank">> >>
  \o (IF uniq = <<>> THEN <<>>
      ELSE [i \in 1..Min(Len(uniq), MaxListed) |-> EntryLine(uniq[i])]
           \o (IF Len(uniq) >= MaxListed
               THEN << <<"more", Len(uniq) - MaxListed>> >> ELSE <<>>)
           \o << <<"blank">> >>)

\* The lines printed for one module.
ModuleLines(module_dir, uniq, nfiles) ==
  << <<"heading", BaseName(module_dir)>>, <<"blank">>, <<"files", nfiles>>,
     <<"decls", Len(uniq)>>, <<"blank">> >>
  \o (IF uniq = <<>> THEN <<>>
      ELSE [i \in 1..Min(Len(uniq), MaxListed) |-> EntryLine(uniq[i])]
           \o (IF Len(uniq) > MaxListed
               THEN << <<"more", Len(uniq) - MaxListed>> >> ELSE <<>>)
           \o << <<"blank">> >>)

(***************************************************************************)
(* The trees the run is checked on.                                        *)
(***************************************************************************)
Sp == <<" ">>
NL == <<"\n">>
Indent == <<" ", " ", " ", " ">>

\* "x", an empty line, then "public struct W {" on line 3.
TextWidget ==
  <<"x">> \o NL \o NL \o KwPublic \o Sp \o KwStruct \o Sp \o <<"W", " ", "{">> \o NL

\* "public let a", then "public func F(" on lines 2 and 3.
TextTwice ==
  KwPublic \o Sp \o KwLet \o Sp \o <<"a">> \o NL
  \o KwPublic \o Sp \o KwFunc \o Sp \o <<"F", "(">> \o NL
  \o KwPublic \o Sp \o KwFunc \o Sp \o <<"F", "(">>

\* "public func F", an indented "public var v", "public final class K".
TextMembers ==
  KwPublic \o Sp \o KwFunc \o Sp \o <<"F">> \o NL
  \o Indent \o KwPublic \o Sp \o KwVar \o Sp \o <<"v">> \o NL
  \o KwPublic \o Sp \o KwFinal \o Sp \o KwClass \o Sp \o <<"K">>

\* "public func F<bad byte>(", then "public enum E": not valid UTF-8.
TextBad ==
  KwPublic \o Sp \o KwFunc \o Sp \o <<"F", BadByte, "(">> \o NL
  \o KwPublic \o Sp \o KwEnum \o Sp \o <<"E">> \o NL

\* A file without any declaration.
TextPlain == <<"x", " ", "y">> \o NL

Texts == {TextWidget, TextTwice, TextMembers, TextBad, TextPlain}

\* What a file of the tree is: some text, or a file that cannot be read.
Contents ==
  {[readable |-> TRUE, bytes |-> t] : t \in Texts}
  \cup {[readable |-> FALSE, bytes |-> <<>>]}

SegModA == <<"M","o","d","A">>
SegModB == <<"M","o","d","B">>
SegSub == <<"S","u","b">>
SegBuildMixed == <<".","B","u","i","l","d">>
SegSwiftpmMixed == <<".","S","w","i","f","t","P","M">>
FileA == <<"A",".","s","w","i","f","t">>
FileB == <<"B",".","s","w","i","f","t">>
FileC == <<"C",".","s","w","i","f","t">>
FileD == <<"D",".","s","w","i","f","t">>
FileNotes == <<"R",".","m","d">>

\* The places of files, below the sources root.
RelPaths ==
  { <<SegModA, FileA>>,
    <<SegModA, SegSub, FileB>>,
    <<SegModA, SegDotBuild, FileC>>,
    <<SegModA, SegSwiftpmMixed, SegSub, FileD>>,
    <<SegModB, FileB>>,
    <<SegModB, FileNotes>> }

\* A checkout in an ordinary place, and one below a directory ".Build".
Roots == { <<SegSlash, SegRepo>>, <<SegSlash, SegBuildMixed, SegRepo>> }

\* The number of files of a tree.
MaxFiles == 3

\* The run before its first step.
InitRun ==
  /\ pc = "start"
  /\ modules = <<>>
  /\ mi = 0
  /\ yielded = <<>>
  /\ decls = <<>>
  /\ unique = <<>>
  /\ out = <<>>
  /\ errs = <<>>
  /\ exitCode = -1

Init ==
  /\ root \in Roots
  /\ \/ dirs = {root} /\ fs = {}
     \/ /\ dirs = {SourcesRoot(root)}
        /\ \E S \in SUBSET RelPaths :
             /\ Cardinality(S) <= MaxFiles
             /\ \E content \in [S -> Contents] :
                  fs = {[path |-> SourcesRoot(root) \o p,
                         bytes |-> content[p].bytes,
                         readable |-> content[p].readable] : p \in S}
  /\ InitRun

(***************************************************************************)
(* main                                                                    *)
(***************************************************************************)
\* The check of the sources root made after the header has been printed.
MissingSourcesAfterHeader ==
  /\ pc = "start"
  /\ ~Exists(SourcesRoot(root))
  /\ out' = out \o HeaderLines
  /\ pc' = "exit"
  /\ exitCode' = 1
  /\ errs' = Append(errs, <<"expected", SourcesRoot(root)>>)
  /\ UNCHANGED <<root, dirs, fs, modules, mi, yielded, decls, unique>>

\* Lines 71-72: the sources root does not exist; SystemExit with a message.
MissingSources ==
  /\ pc = "start"
  /\ ~Exists(SourcesRoot(root))
  /\ pc' = "exit"
  /\ exitCode' = 1
  /\ errs' = Append(errs, <<"expected", SourcesRoot(root)>>)
  /\ UNCHANGED <<root, dirs, fs, modules, mi, yielded, decls, unique, out>>

\* Lines 74-80: the modules are listed and sorted, the header is printed.
Start ==
  /\ pc = "start"
  /\ Exists(SourcesRoot(root))
  /\ modules' = SortedByName({p \in IterDir(SourcesRoot(root)) : IsDir(p)})
  /\ out' = out \o HeaderLines
  /\ mi' = 1
  /\ pc' = "loop"
  /\ UNCHANGED <<root, dirs, fs, yielded, decls, unique, errs, exitCode>>

\* Lines 82-83: the next module; decls starts empty.
BeginModule ==
  /\ pc = "loop"
  /\ mi <= Len(modules)
  /\ decls' = <<>>
  /\ yielded' = <<>>
  /\ pc' = "scan"
  /\ UNCHANGED <<root, dirs, fs, modules, mi, unique, out, errs, exitCode>>

\* The files iter_swift_files has still to yield in this iteration.
Remaining ==
  {f \in iter_swift_files(modules[mi]) : \A i \in 1..Len(yielded) : yielded[i] # f.path}

\* Lines 84-85: the next file is yielded and scanned.
ScanFile ==
  /\ pc = "scan"
  /\ \E f \in Remaining :
       /\ f.readable
       /\ decls' = decls \o scan_file(f.path, f.bytes)
       /\ yielded' = Append(yielded, f.path)
  /\ UNCHANGED <<root, dirs, fs, pc, modules, mi, unique, out, errs, exitCode>>

\* A file that cannot be read is passed over and the scan goes on.
ScanFileSkips ==
  /\ pc = "scan"
  /\ \E f \in Remaining :
       /\ ~f.readable
       /\ yielded' = Append(yielded, f.path)
  /\ UNCHANGED <<root, dirs, fs, pc, modules, mi, decls, unique, out, errs, exitCode>>

\* Lines 84-85, 46: read_text raises OSError, which nothing catches.
ScanFileFails ==
  /\ pc = "scan"
  /\ \E f \in Remaining :
       /\ ~f.readable
       /\ yielded' = Append(yielded, f.path)
  /\ pc' = "crash"
  /\ exitCode' = 1
  /\ errs' = Append(errs, <<"traceback">>)
  /\ UNCHANGED <<root, dirs, fs, modules, mi, decls, unique, out>>

\* A count of all the files rglob finds.
FilesScannedAll(module_dir) == Cardinality(RGlobSwift(module_dir))

\* len(list(iter_swift_files(module_dir))): the second pass.
FilesScanned(module_dir) == Cardinality(iter_swift_files(module_dir))

\* Lines 87-114: de-duplication, sort, and the module's section.
RenderModule ==
  /\ pc = "scan"
  /\ Remaining = {}
  /\ unique' = SortDecls(Dedupe(decls))
  /\ out' = out \o ModuleLines(modules[mi], unique', FilesScanned(modules[mi]))
  /\ mi' = mi + 1
  /\ pc' = "loop"
  /\ UNCHANGED <<root, dirs, fs, modules, yielded, decls, errs, exitCode>>

\* Line 116: return 0.
Finish ==
  /\ pc = "loop"
  /\ mi > Len(modules)
  /\ pc' = "done"
  /\ exitCode' = 0
  /\ UNCHANGED <<root, dirs, fs, modules, mi, yielded, decls, unique, out, errs>>

Next ==
  \/ MissingSources
  \/ Start
  \/ BeginModule
  \/ ScanFile
  \/ ScanFileFails
  \/ RenderModule
  \/ Finish

Spec == Init /\ [][Next]_vars

(***************************************************************************)
(* Trees with one large module: a file of n distinct declarations, the     *)
(* greatest first, and beside it a second module of at most one file.      *)
(***************************************************************************)
\* The number of declarations of the large file.
MaxDecls == 62

\* str(i)
RECURSIVE Decimal(_)
Decimal(i) ==
  IF i < 10 THEN <<Digits[i + 1]>> ELSE Decimal(i \div 10) \o <<Digits[(i % 10) + 1]>>

\* The lines "public var v<i>" for i = n, ..., 1.
RECURSIVE TextOfDecls(_)
TextOfDecls(n) ==
  IF n = 0 THEN <<>>
  ELSE KwPublic \o Sp \o KwVar \o Sp \o <<"v">> \o Decimal(n) \o NL \o TextOfDecls(n - 1)

InitTrunc ==
  /\ root = <<SegSlash, SegRepo>>
  /\ \/ dirs = {root} /\ fs = {}
     \/ /\ dirs = {SourcesRoot(root)}
        /\ \E n \in 0..MaxDecls :
           \E others \in SUBSET {[path |-> SourcesRoot(root) \o <<SegModB, FileB>>,
                                   bytes |-> c.bytes, readable |-> c.readable] :
                                     c \in Contents} :
             /\ Cardinality(others) <= 1
             /\ fs = {[path |-> SourcesRoot(root) \o <<SegModA, FileA>>,
                       bytes |-> TextOfDecls(n), readable |-> TRUE]} \cup others
  /\ InitRun

SpecTrunc == InitTrunc /\ [][Next]_vars

(***************************************************************************)
(* Trees of one file of one line, the line put together from parts.        *)
(***************************************************************************)
\* The greatest number of white-space characters before the first word.
MaxLead == 2

RECURSIVE Repeat(_, _)
Repeat(c, n) == IF n = 0 THEN <<>> ELSE <<c>> \o Repeat(c, n - 1)

LeadParts == {Repeat(c, n) : c \in {" ", "\t"}, n \in 0..MaxLead}
VisParts == {KwPublic, <<"p","u","b","l","i","c","x">>}
GapParts == {<<>>, Sp, <<" ", "\t">>}
FinalParts == {<<>>, KwFinal \o Sp, KwFinal}
KindParts ==
  {KINDS[k] : k \in 1..Len(KINDS)} \cup {KwFunc \o <<"s">>, <<"i","n","i","t">>}
NameParts == {<<"r","u","n">>, <<"_","f","1">>, <<"1","x">>, <<>>}
TailParts == {<<>>, <<"(", ")", " ", "{">>}

Lines ==
  {lead \o vis \o gap1 \o fin \o kind \o gap2 \o name \o tail :
     lead \in LeadParts, vis \in VisParts, gap1 \in GapParts, fin \in FinalParts,
     kind \in KindParts, gap2 \in {<<>>, Sp}, name \in NameParts, tail \in TailParts}

InitLines ==
  /\ root = <<SegSlash, SegRepo>>
  /\ \/ dirs = {root} /\ fs = {}
     \/ /\ dirs = {SourcesRoot(root)}
        /\ \/ \E line \in Lines :
                fs = {[path |-> SourcesRoot(root) \o <<SegModA, FileA>>,
                       bytes |-> line, readable |-> TRUE]}
           \/ fs = {[path |-> SourcesRoot(root) \o <<SegModA, FileA>>,
                     bytes |-> <<>>, readable |-> FALSE]}
  /\ InitRun

SpecLines == InitLines /\ [][Next]_vars

(***************************************************************************)
(* Properties.  In a state with pc = "loop" and mi > 1 the module          *)
(* modules[mi - 1] has just been rendered: yielded, decls and unique are   *)
(* those of its iteration, and its section is the last one of out.         *)
(***************************************************************************)
Rendered == pc = "loop" /\ mi > 1
RenderedModule == modules[mi - 1]

FileAt(p) == CHOOSE f \in fs : f.path = p

\* The section of the module rendered last: from its heading to the end.
LastHeading(o) ==
  CHOOSE i \in 1..Len(o) :
    /\ o[i][1] = "heading"
    /\ \A j \in (i + 1)..Len(o) : o[j][1] # "heading"
LastSection(o) == SubSeq(o, LastHeading(o), Len(o))
EntriesOf(sec) == {i \in 1..Len(sec) : sec[i][1] = "entry"}

\* The position of a file in the order of discovery.
FilePos(p) == CHOOSE i \in 1..Len(yielded) : yielded[i] = p

\* The declarations of the files ps, scanned in that order.
RECURSIVE ScanAll(_, _)
ScanAll(ps, i) ==
  IF i > Len(ps) THEN <<>>
  ELSE scan_file(ps[i], FileAt(ps[i]).bytes) \o ScanAll(ps, i + 1)

\* The orders in which the files ps can be discovered.
Orders(ps) ==
  {q \in [1..Len(ps) -> {ps[i] : i \in 1..Len(ps)}] :
     \A i, j \in 1..Len(ps) : i # j => q[i] # q[j]}

Reverse(ps) == [i \in 1..Len(ps) |-> ps[Len(ps) + 1 - i]]

\* C1: the declarations of a module after de-duplication and sort are
\* strictly ascending by (kind, name) in string order, so no (kind, name)
\* occurs twice, whatever the order of discovery was.
C1_StrictlyAscending ==
  /\ \A i \in 1..(Len(unique) - 1) :
       \/ StrLess(unique[i].kind, unique[i + 1].kind)
       \/ /\ unique[i].kind = unique[i + 1].kind
          /\ StrLess(unique[i].name, unique[i + 1].name)
  /\ \A i, j \in 1..Len(unique) :
       i # j => <<unique[i].kind, unique[i].name>> # <<unique[j].kind, unique[j].name>>
  /\ Rendered =>
       /\ \A i \in 1..Len(decls) : \E j \in 1..Len(unique) : Key(unique[j]) = Key(decls[i])
       /\ \A j \in 1..Len(unique) : \E i \in 1..Len(decls) : decls[i] = unique[j]

\* A module of two files whose declarations had to be reordered and
\* de-duplicated.
C1_Witness ==
  /\ Rendered
  /\ Len(yielded) >= 2
  /\ Len(unique) >= 3
  /\ Len(decls) > Len(unique)
  /\ \E i \in 1..(Len(decls) - 1) : KeyLess(decls[i + 1], decls[i])

\* C2: of the matching lines of a module with the same (kind, name) the one
\* kept is the first of the concatenated sequence: no other occurrence comes
\* from a file discovered earlier, or from an earlier line of the same file.
C2_FirstOccurrenceKept ==
  Rendered =>
    /\ \A i, j \in 1..Len(decls) :
         i < j =>
           \/ FilePos(decls[i].file) < FilePos(decls[j].file)
           \/ decls[i].file = decls[j].file /\ decls[i].line < decls[j].line
    /\ \A j \in 1..Len(unique) :
         /\ \E i \in 1..Len(decls) : decls[i] = unique[j]
         /\ \A i \in 1..Len(decls) :
              Key(decls[i]) = Key(unique[j]) /\ decls[i] # unique[j] =>
                \/ FilePos(unique[j].file) < FilePos(decls[i].file)
                \/ unique[j].file = decls[i].file /\ unique[j].line < decls[i].line

\* The same (kind, name) in two files, and twice in one of them.
C2_Witness ==
  /\ Rendered
  /\ \E j \in 1..Len(unique) :
       /\ \E i \in 1..Len(decls) :
            Key(decls[i]) = Key(unique[j]) /\ decls[i].file # unique[j].file
       /\ \E i \in 1..Len(decls) :
            /\ Key(decls[i]) = Key(unique[j])
            /\ decls[i].file = unique[j].file
            /\ decls[i].line # unique[j].line

\* The section of the rendered module, had its files been discovered in the
\* order ps.
SectionInOrder(ps) ==
  ModuleLines(RenderedModule, SortDecls(Dedupe(ScanAll(ps, 1))), Len(ps))

\* C3 as stated: the listing of a module (kind, name and origin of each
\* entry, in order) is the same for every order of discovery of its files.
C3_ListingSameInAnyOrder ==
  Rendered => \A ps \in Orders(yielded) : SectionInOrder(ps) = LastSection(out)

\* The files of the module that declare the key.
FilesDeclaring(key) ==
  {yielded[i] : i \in {x \in 1..Len(yielded) :
     \E k \in 1..Len(ScanAll(<<yielded[x]>>, 1)) : Key(ScanAll(<<yielded[x]>>, 1)[k]) = key}}

\* C3, amended: in every order of discovery the listing has the same
\* entries by (kind, name), in the same order; the origin of an entry is
\* the same too when only one file of the module declares its (kind, name).
C3_KeysSameInAnyOrder ==
  Rendered =>
    \A ps \in Orders(yielded) :
      LET alt == SectionInOrder(ps)
          sec == LastSection(out)
      IN  /\ Len(alt) = Len(sec)
          /\ \A i \in 1..Len(sec) :
               /\ alt[i][1] = sec[i][1]
               /\ \/ alt[i] = sec[i]
                  \/ /\ sec[i][1] = "entry"
                     /\ alt[i][2] = sec[i][2]
                     /\ alt[i][3] = sec[i][3]
                     /\ Cardinality(FilesDeclaring(<<sec[i][2], sec[i][3]>>)) > 1

\* Two files whose declarations come out in another sequence when the
\* files are discovered in the reverse order.
C3_Witness ==
  /\ Rendered
  /\ Len(yielded) = 2
  /\ Len(unique) >= 3
  /\ ScanAll(Reverse(yielded), 1) # decls
  /\ \E j \in 1..Len(unique) : Cardinality(FilesDeclaring(Key(unique[j]))) = 2
  /\ \E j \in 1..Len(unique) : Cardinality(FilesDeclaring(Key(unique[j]))) = 1

\* A part that is ".build" or ".swiftpm" up to the case of its letters.
IsBuildPart(seg) ==
  \E name \in {SegDotBuild, SegDotSwiftpm} :
    /\ Len(seg) = Len(name)
    /\ \A i \in 1..Len(seg) : seg[i] = name[i] \/ LowerChar(seg[i]) = name[i]
HasBuildPart(path) == \E i \in 1..Len(path) : IsBuildPart(path[i])

\* The number printed as "Files scanned" in a section.
FilesLine(sec) == sec[3][2]

\* C4: a file whose path has a part equal to ".build" or ".swiftpm",
\* whatever the case, is never yielded by discovery: it is not counted in
\* "Files scanned" and none of its lines gives a declaration.
C4_BuildFilesNeverSeen ==
  /\ \A i \in 1..Len(yielded) : ~HasBuildPart(yielded[i])
  /\ \A i \in 1..Len(decls) : ~HasBuildPart(decls[i].file)
  /\ \A i \in 1..Len(unique) : ~HasBuildPart(unique[i].file)
  /\ \A i \in 1..Len(out) : out[i][1] = "entry" => ~HasBuildPart(root \o out[i][4])
  /\ Rendered =>
       FilesLine(LastSection(out)) =
         Cardinality({f \in fs : /\ IsProperPrefix(RenderedModule, f.path)
                                 /\ EndsWith(BaseName(f.path), SuffixSwift)
                                 /\ ~HasBuildPart(f.path)})

\* A module with a counted file and a file below ".SwiftPM" that has
\* matching lines.
C4_Witness ==
  /\ Rendered
  /\ FilesLine(LastSection(out)) >= 1
  /\ \E f \in fs :
       /\ IsProperPrefix(RenderedModule, f.path)
       /\ \E i \in 1..Len(f.path) : f.path[i] = SegSwiftpmMixed
       /\ f.readable
       /\ scan_file(f.path, f.bytes) # <<>>

\* C5: the "Files scanned" number of a module is the number of files
\* scanned in the first pass, those without a matching line included; N
\* files with the same single declaration give N and one unique
\* declaration, no file gives 0 and an empty listing.
C5_FilesScannedIsFirstPass ==
  Rendered =>
    LET sec == LastSection(out)
    IN  /\ FilesLine(sec) = Len(yielded)
        /\ \A i, j \in 1..Len(yielded) : i # j => yielded[i] # yielded[j]
        /\ sec[4] = <<"decls", Len(unique)>>
        /\ (/\ Len(yielded) >= 1
            /\ \A i \in 1..Len(yielded) :
                 /\ Len(ScanAll(<<yielded[i]>>, 1)) = 1
                 /\ Key(ScanAll(<<yielded[i]>>, 1)[1]) = Key(ScanAll(<<yielded[1]>>, 1)[1]))
             => Len(unique) = 1
        /\ Len(yielded) = 0 => FilesLine(sec) = 0 /\ unique = <<>> /\ EntriesOf(sec) = {}

\* Two files with the same single declaration, beside an excluded file.
C5_Witness ==
  /\ Rendered
  /\ Len(yielded) = 2
  /\ Len(decls) = 2
  /\ Len(unique) = 1
  /\ FilesLine(LastSection(out)) = 2
  /\ Cardinality(RGlobSwift(RenderedModule)) = 3

\* C6: for n unique declarations the section lists the first min(n, 60) of
\* the sorted list, in order; a last line "(n - 60) more" is printed exactly
\* when n > 60; with n = 0 there is neither an entry nor that line.
C6_ListingCapped ==
  Rendered =>
    LET sec == LastSection(out)
        n == Len(unique)
        listed == IF n <= 60 THEN n ELSE 60
        more == {i \in 1..Len(sec) : sec[i][1] = "more"}
    IN  /\ Cardinality(EntriesOf(sec)) = listed
        /\ EntriesOf(sec) = {5 + k : k \in 1..listed}
        /\ \A k \in 1..listed :
             /\ sec[5 + k][2] = unique[k].kind
             /\ sec[5 + k][3] = unique[k].name
             /\ sec[5 + k][5] = unique[k].line
        /\ n > 60 <=> more # {}
        /\ n > 60 => more = {5 + listed + 1} /\ sec[5 + listed + 1] = <<"more", n - 60>>
        /\ n = 0 => Len(sec) = 5

\* 61 declarations: 60 entries and "1 more".
C6_Witness ==
  /\ Rendered
  /\ Len(unique) = 61
  /\ Cardinality(EntriesOf(LastSection(out))) = 60
  /\ \E i \in 1..Len(LastSection(out)) : LastSection(out)[i] = <<"more", 1>>

\* C7: without <root>/libs/hive/Sources the run ends with a non-zero exit
\* status before anything is printed, any module is listed or any file read.
C7_MissingSourcesNoReport ==
  ~Exists(SourcesRoot(root)) =>
    /\ out = <<>>
    /\ modules = <<>>
    /\ yielded = <<>>
    /\ decls = <<>>
    /\ pc \in {"start", "exit"}
    /\ pc = "exit" => exitCode # 0 /\ exitCode # -1 /\ Len(errs) = 1

\* The run has ended for want of the sources root.
C7_Witness ==
  /\ pc = "exit"
  /\ ~Exists(SourcesRoot(root))
  /\ out = <<>>

\* The declarations in ds that come from the file p.
RECURSIVE FromFile(_, _, _)
FromFile(ds, p, i) ==
  IF i > Len(ds) THEN <<>>
  ELSE (IF ds[i].file = p THEN <<ds[i]>> ELSE <<>>) \o FromFile(ds, p, i + 1)

\* The files of all modules that the run is to read.
AllEligible ==
  {f \in fs : EndsWith(BaseName(f.path), SuffixSwift) /\ ~HasBuildPart(f.path)
              /\ Len(f.path) > Len(SourcesRoot(root)) + 1
              /\ IsPrefix(SourcesRoot(root), f.path)}

\* C8: bytes that do not decode never end the run: the file is read with
\* replacement characters and the scan goes on.  A file that cannot be
\* read ends the run with a non-zero status: it is not skipped, and no
\* report is completed without it.
C8_DecodeRecoveredReadFatal ==
  /\ pc = "crash" =>
       /\ ~FileAt(yielded[Len(yielded)]).readable
       /\ exitCode = 1
  /\ \A i \in 1..Len(yielded) :
       LET f == FileAt(yielded[i])
       IN  f.readable =>
             FromFile(decls, f.path, 1)
               = ScanLines(f.path, SplitLines(DecodeReplace(f.bytes)), 1, <<>>)
  /\ pc \in {"loop", "scan"} =>
       \A i \in 1..Len(yielded) : FileAt(yielded[i]).readable
  /\ pc = "done" =>
       /\ exitCode = 0
       /\ \A f \in AllEligible : f.readable
       /\ Cardinality({i \in 1..Len(out) : out[i][1] = "heading"}) = Len(modules)

\* A file with a bad byte was scanned, its declarations were taken, and the
\* run went on to a file that could not be read.
C8_Witness ==
  /\ pc = "crash"
  /\ Len(yielded) = 2
  /\ HasBadByte(FileAt(yielded[1]).bytes)
  /\ Len(decls) = 2
  /\ exitCode = 1

\* The headings printed so far, in the order of printing.
RECURSIVE HeadingsOf(_, _)
HeadingsOf(o, i) ==
  IF i > Len(o) THEN <<>>
  ELSE (IF o[i][1] = "heading" THEN <<o[i][2]>> ELSE <<>>) \o HeadingsOf(o, i + 1)

\* C9 as stated: the location of an entry is the path of the file from the
\* name of the module directory downward ("ModA/A.ext"), then the 1-based
\* line number; the sections come in the order of the module names.
C9_LocationFromModuleName ==
  Rendered =>
    LET sec == LastSection(out)
    IN  \A k \in 1..Len(unique) :
          /\ sec[5 + k][4]
               = SubSeq(unique[k].file, Len(RenderedModule), Len(unique[k].file))
          /\ sec[5 + k][5] = unique[k].line

\* C9, amended: the location of an entry is the path of the file relative
\* to root ("libs/hive/Sources/ModA/A.ext"), then the 1-based number of the
\* matching line; the sections come in the order of the module names.
C9_LocationFromRoot ==
  /\ \A i, j \in 1..Len(HeadingsOf(out, 1)) :
       i < j => StrLess(HeadingsOf(out, 1)[i], HeadingsOf(out, 1)[j])
  /\ Rendered =>
       LET sec == LastSection(out)
       IN  /\ sec[1] = <<"heading", RenderedModule[Len(RenderedModule)]>>
           /\ \A k \in 1..Len(unique) :
                LET lines == SplitLines(ReadText(FileAt(unique[k].file).bytes))
                    loc == sec[5 + k][4]
                    at == sec[5 + k][5]
                IN  /\ root \o loc = unique[k].file
                    /\ SubSeq(loc, 1, 3) = <<SegLibs, SegHive, SegSources>>
                    /\ loc[4] = sec[1][2]
                    /\ at \in 1..Len(lines)
                    /\ PublicDeclMatch(lines[at]).matched
                    /\ PublicDeclMatch(lines[at]).kind = sec[5 + k][2]
                    /\ PublicDeclMatch(lines[at]).name = sec[5 + k][3]

\* ModA/A.swift with "public struct W {" on line 3 and ModB/B.swift with a
\* declaration on line 1: the two sections as printed.
C9_Witness ==
  /\ pc = "done"
  /\ HeadingsOf(out, 1) = <<SegModA, SegModB>>
  /\ \E i, j \in 1..Len(out) :
       /\ i < j
       /\ out[i] = <<"entry", KwStruct, <<"W">>,
                     <<SegLibs, SegHive, SegSources, SegModA, FileA>>, 3>>
       /\ out[j] = <<"entry", KwFunc, <<"F">>,
                     <<SegLibs, SegHive, SegSources, SegModB, FileB>>, 1>>

\* line[from..to] is white space only.
AllSpace(line, from, to) == \A i \in from..to : IsSpace(line[i])
AllWord(line, from, to) == \A i \in from..to : IsWord(line[i])

\* The places in line where a kind keyword may stand: after "public" and
\* white space, and after "final" and white space if that follows; "public"
\* itself after at most maxLead white-space characters.
KindPlaces(line, maxLead) ==
  LET afterGap(p) == {q \in (p + 1)..Len(line) : AllSpace(line, p, q - 1)}
      publics == {a \in 1..(maxLead + 1) :
                    AllSpace(line, 1, a - 1) /\ MatchLiteral(line, a, KwPublic)}
      first == UNION {afterGap(a + Len(KwPublic)) : a \in publics}
      second == UNION {afterGap(b + Len(KwFinal)) :
                         b \in {x \in first : MatchLiteral(line, x, KwFinal)}}
  IN  first \cup second

\* The declarations (kind, name) the stated rule gives for a line: a kind
\* keyword at one of these places, white space, and the identifier there.
RuleDecls(line, maxLead) ==
  LET keywords == {ck \in KindPlaces(line, maxLead) \X (1..Len(KINDS)) :
                     MatchLiteral(line, ck[1], KINDS[ck[2]])}
      NameStarts(ck) ==
        {n \in (ck[1] + Len(KINDS[ck[2]]) + 1)..Len(line) :
           /\ AllSpace(line, ck[1] + Len(KINDS[ck[2]]), n - 1)
           /\ IsIdentStart(line[n])}
      NameEnds(n) ==
        {e \in n..Len(line) :
           /\ AllWord(line, n, e)
           /\ e = Len(line) \/ ~IsWord(line[e + 1])}
  IN  UNION {UNION {{<<KINDS[ck[2]], SubSeq(line, n, e)>> : e \in NameEnds(n)} :
                      n \in NameStarts(ck)} :
               ck \in keywords}

\* The one file of the tree has been scanned; its text is a single line.
Scanned == pc = "scan" /\ Len(yielded) = 1
ScannedLine == FileAt(yielded[1]).bytes
Emitted == {<<decls[i].kind, decls[i].name>> : i \in 1..Len(decls)}

\* C10 as stated: a declaration is emitted for a line exactly when the
\* line, after any amount of leading white space, begins with "public",
\* white space, optionally "final" and white space, a kind keyword, white
\* space and an identifier; kind and name are that keyword and identifier.
C10_LeadingWhiteSpaceAllowed ==
  Scanned => Emitted = RuleDecls(ScannedLine, Len(ScannedLine))

\* C10, amended: the same with "public" at the very start of the line: a
\* line with leading white space gives no declaration.
C10_AnchoredAtLineStart ==
  Scanned =>
    /\ Emitted = RuleDecls(ScannedLine, 0)
    /\ Len(decls) <= 1
    /\ \A i \in 1..Len(decls) : decls[i].line = 1 /\ decls[i].file = yielded[1]
    /\ decls # <<>> => ~IsSpace(ScannedLine[1])

\* "public", a space and a tab, "final class _f1() {": (class, _f1).
C10_Witness ==
  /\ Scanned
  /\ ScannedLine = KwPublic \o <<" ", "\t">> \o KwFinal \o Sp \o KwClass \o Sp
                   \o <<"_", "f", "1", "(", ")", " ", "{">>
  /\ Emitted = {<<KwClass, <<"_", "f", "1">>>>}

====
